---- MODULE Spec2Model ----
(***************************************************************************)
(* Article view-state synchronisation of the Varthanam front end:          *)
(* the useArticles hook (hooks/useArticles.ts) driven by the DashboardPage *)
(* (pages/Dashboard.tsx) against the remote article list endpoint          *)
(* (lib/articlesApi.ts).                                                   *)
(*                                                                         *)
(* One step of the model is one turn of the UI event loop: an event        *)
(* handler or a promise continuation, the re-render it causes and the      *)
(* effects of that render.  Closures therefore always see the state of the *)
(* latest render; the only asynchronous boundary is the remote call.       *)
(***************************************************************************)
EXTENDS Integers, Sequences, FiniteSets, Bags, TLC

\* ---------------------------------------------------------------- bounds
\* number of articles the server holds in collection 1 and in collection 2
NumArticles1 == 41
NumArticles2 == 21
\* remote list calls that may be pending at the same time
MaxInFlight == 2
\* remote list calls dispatched over a run
MaxFetches == 3
\* article state calls (mark read, save, ...) dispatched over a run
MaxMutations == 3
\* the cards the user acts on: the first MaxClickIndex of the list
MaxClickIndex == 2

\* ------------------------------------------------------- program constants
PAGE_SIZE == 20
Null == 0
NoError == "null"
FilterType == {"all", "unread", "saved"}
DefaultFetchError == "Failed to load articles"
\* detail of a failed response as built by request(); "" is a failure that
\* carries no detail (fetch itself threw)
UnexpectedDetail == "An unexpected error occurred"
NoDetail == ""
Details == {UnexpectedDetail, NoDetail}

VARIABLES
    collections,           \* useCollections().collections
    selectedCollectionId,  \* DashboardPage state
    lastFetchRef,          \* DashboardPage ref: <<>> is null, else <<pair>>
    hook,                  \* the useState cells of useArticles
    inflight,              \* bag of pending articlesApi.getByCollection calls
    articleStates,         \* DashboardPage state: article id -> {isRead, isSaved}
    pendingMutations,      \* bag of pending markRead/markUnread/save/unsave calls
    nMutations,            \* history: article state calls so far
    serverSaved,           \* the server: article id -> saved flag, for the
                           \* articles a save or unsave call was processed for
    seen,                  \* history: the ids with an entry or a pending call that
                           \* were in the list since the active scope last changed
    nFetches,              \* history: calls of articlesApi.getByCollection so far
    lastOp                 \* history: the operation of the latest step

vars == <<collections, selectedCollectionId, lastFetchRef, hook, inflight,
          articleStates, pendingMutations, nMutations, serverSaved, seen, nFetches,
          lastOp>>

\* ------------------------------------------------------------ the server
Min(a, b) == IF a < b THEN a ELSE b

\* the collection lists the server may return to useCollections
ServerCollections == {<<1, 2>>, <<2, 1>>}

\* all articles of a collection, in server order
ServerArticles(c) ==
    IF c = 1 THEN [i \in 1..NumArticles1 |-> i]
    ELSE IF c = 2 THEN [i \in 1..NumArticles2 |-> 100 + i]
    ELSE <<>>

\* the server's per-user article state the list filters select on
ServerIsUnread(id) == id % 2 = 1
ServerIsSaved(id) == id % 3 = 0

KeepArticle(id, unreadOnly, savedOnly) ==
    /\ (unreadOnly => ServerIsUnread(id))
    /\ (savedOnly => ServerIsSaved(id))

FilteredArticles(c, unreadOnly, savedOnly) ==
    LET Keep(id) == KeepArticle(id, unreadOnly, savedOnly)
    IN  SelectSeq(ServerArticles(c), Keep)

\* the PaginatedArticles response to a list request
getByCollection(params) ==
    LET list == FilteredArticles(params.collectionId, params.unreadOnly, params.savedOnly)
        last == Min(params.offset + params.limit, Len(list))
    IN  [items |-> SubSeq(list, params.offset + 1, last),
         total |-> Len(list),
         limit |-> params.limit,
         offset |-> params.offset]

\* ----------------------------------------------------------- useArticles
InitHook ==
    [articles |-> <<>>, origin |-> <<>>, total |-> 0, offset |-> 0,
     isLoading |-> FALSE, error |-> NoError, filter |-> "all"]

\* slip: hasMore is taken from the offset, not from the list
hasMore_ByOffset(h) == h.offset < h.total

hasMore(h) == Len(h.articles) < h.total

Scope(c, f) == [collectionId |-> c, filter |-> f]

\* the scope a list request asks the server for
RequestScope(r) ==
    Scope(r.params.collectionId,
          IF r.params.unreadOnly THEN "unread"
          ELSE IF r.params.savedOnly THEN "saved" ELSE "all")

\* fetchArticles up to its await: the state it leaves ...
fetchArticlesBegin(h, collectionId, reset) ==
    [h EXCEPT !.isLoading = TRUE,
              !.error = NoError,
              !.articles = IF reset THEN <<>> ELSE @,
              !.origin = IF reset THEN <<>> ELSE @,
              !.offset = IF reset THEN 0 ELSE @]

\* slip: the next page is always asked for at offset 0
fetchArticlesCall_OffsetZero(h, collectionId, reset) ==
    [params |-> [collectionId |-> collectionId,
                 limit |-> PAGE_SIZE,
                 offset |-> 0,
                 unreadOnly |-> h.filter = "unread",
                 savedOnly |-> h.filter = "saved"],
     reset |-> reset,
     pre |-> [articles |-> h.articles, total |-> h.total, offset |-> h.offset]]

\* slip: a reset fetch asks for the page at the current offset
fetchArticlesCall_KeepsOffset(h, collectionId, reset) ==
    [params |-> [collectionId |-> collectionId,
                 limit |-> PAGE_SIZE,
                 offset |-> h.offset,
                 unreadOnly |-> h.filter = "unread",
                 savedOnly |-> h.filter = "saved"],
     reset |-> reset,
     pre |-> [articles |-> h.articles, total |-> h.total, offset |-> h.offset]]

\* slip: every filter but 'all' asks for the unread items as well
fetchArticlesCall_UnreadUnlessAll(h, collectionId, reset) ==
    [params |-> [collectionId |-> collectionId,
                 limit |-> PAGE_SIZE,
                 offset |-> IF reset THEN 0 ELSE h.offset,
                 unreadOnly |-> h.filter # "all",
                 savedOnly |-> h.filter = "saved"],
     reset |-> reset,
     pre |-> [articles |-> h.articles, total |-> h.total, offset |-> h.offset]]

\* ... and the pending call: the request sent, and what the continuation
\* keeps in its closure (reset, newOffset = params.offset).  pre is history:
\* the list, total and offset at the time of the call.
fetchArticlesCall(h, collectionId, reset) ==
    [params |-> [collectionId |-> collectionId,
                 limit |-> PAGE_SIZE,
                 offset |-> IF reset THEN 0 ELSE h.offset,
                 unreadOnly |-> h.filter = "unread",
                 savedOnly |-> h.filter = "saved"],
     reset |-> reset,
     pre |-> [articles |-> h.articles, total |-> h.total, offset |-> h.offset]]

\* slip: the offset advances by the page size, not by the items returned
fetchArticlesFulfilled_AdvancesByLimit(h, r, data) ==
    LET tags == [i \in 1..Len(data.items) |-> RequestScope(r)]
    IN  [h EXCEPT !.articles = IF r.reset THEN data.items ELSE @ \o data.items,
                  !.origin = IF r.reset THEN tags ELSE @ \o tags,
                  !.total = data.total,
                  !.offset = r.params.offset + r.params.limit,
                  !.isLoading = FALSE]

\* fetchArticles after the await resolved with data
fetchArticlesFulfilled(h, r, data) ==
    LET tags == [i \in 1..Len(data.items) |-> RequestScope(r)]
    IN  [h EXCEPT !.articles = IF r.reset THEN data.items ELSE @ \o data.items,
                  !.origin = IF r.reset THEN tags ELSE @ \o tags,
                  !.total = data.total,
                  !.offset = r.params.offset + Len(data.items),
                  !.isLoading = FALSE]

ErrorMessage(detail, default) == IF detail = NoDetail THEN default ELSE detail

\* slip: no finally block, a failure leaves the loading flag set
fetchArticlesRejected_NoFinally(h, r, detail) ==
    [h EXCEPT !.error = ErrorMessage(detail, DefaultFetchError)]

\* fetchArticles after the await rejected
fetchArticlesRejected(h, r, detail) ==
    [h EXCEPT !.error = ErrorMessage(detail, DefaultFetchError),
              !.isLoading = FALSE]

\* how the promise of fetchArticles (and of loadMore, which awaits it) ends
\* when the remote call ended well (ok) or failed: the catch block does not
\* throw
fetchArticlesPromise(ok) == "resolved"

\* slips: one half of the guard of loadMore is missing
loadMoreSkips_NoTotalCheck(h) == h.isLoading
loadMoreSkips_NoLoadingCheck(h) == Len(h.articles) >= h.total

\* the guard of loadMore: TRUE when it returns without fetching
loadMoreSkips(h) == h.isLoading \/ Len(h.articles) >= h.total

\* slip: setFilter also clears the error, as the start of a fetch does
setFilter_ClearsError(h, newFilter) ==
    [h EXCEPT !.filter = newFilter,
              !.articles = <<>>,
              !.origin = <<>>,
              !.offset = 0,
              !.total = 0,
              !.error = NoError]

setFilter(h, newFilter) ==
    [h EXCEPT !.filter = newFilter,
              !.articles = <<>>,
              !.origin = <<>>,
              !.offset = 0,
              !.total = 0]

\* slip: clearError also takes the loading flag down
clearError_AlsoStopsLoading(h) == [h EXCEPT !.error = NoError, !.isLoading = FALSE]

clearError(h) == [h EXCEPT !.error = NoError]

\* ---------------------------------------------------------- DashboardPage
activeCollectionId(sel, colls) ==
    IF sel # Null THEN sel
    ELSE IF Len(colls) > 0 THEN colls[1] ELSE Null

\* slip: the effect does not consult lastFetchRef
shouldFetch_Always(last, active, f) == TRUE

\* slip: the effect compares the collection only
shouldFetch_CollectionOnly(last, active, f) ==
    \/ last = <<>>
    \/ last[1].collectionId # active

shouldFetch(last, active, f) ==
    \/ last = <<>>
    \/ last[1].collectionId # active
    \/ last[1].filter # f

\* slip: the effect does not return when no collection is active
EffectFetches_NoNullCheck(last, active, f) == shouldFetch(last, active, f)

EffectFetches(last, active, f) == active # Null /\ shouldFetch(last, active, f)

\* The render that follows a handler, and its fetch effect: h, sel and colls
\* are the state the handler left (the handler's article states are set by
\* the action before it renders).  op is recorded in lastOp.
Render(h, sel, colls, pending, sent, op) ==
    LET active == activeCollectionId(sel, colls)
    IN  /\ collections' = colls
        /\ selectedCollectionId' = sel
        /\ IF EffectFetches(lastFetchRef, active, h.filter)
           THEN /\ BagCardinality(pending) < MaxInFlight
                /\ sent < MaxFetches
                /\ nFetches' = sent + 1
                /\ lastFetchRef' = <<Scope(active, h.filter)>>
                /\ hook' = fetchArticlesBegin(h, active, TRUE)
                /\ inflight' = pending (+) SetToBag({fetchArticlesCall(h, active, TRUE)})
                /\ lastOp' = [op EXCEPT !.effect = TRUE]
           ELSE /\ lastFetchRef' = lastFetchRef
                /\ nFetches' = sent
                /\ hook' = h
                /\ inflight' = pending
                /\ lastOp' = op
        /\ seen' = ((IF Scope(active, h.filter) =
                          Scope(activeCollectionId(selectedCollectionId, collections),
                                hook.filter)
                     THEN seen ELSE {})
                    \cup {hook'.articles[i] : i \in 1..Len(hook'.articles)})
                   \cap (DOMAIN articleStates'
                         \cup {m.id : m \in BagToSet(pendingMutations')})

Op(name) == [op |-> name, effect |-> FALSE]

\* articleStates: a map from article id to a record that has the fields set
\* so far; no entry and no field are JavaScript's undefined
NoStates == << >>
NoEntry == << >>

EntryOf(states, id) == IF id \in DOMAIN states THEN states[id] ELSE NoEntry

\* slip: the entry is replaced, not spread
WithField_NoSpread(states, id, field, value) ==
    (id :> (field :> value)) @@ states

\* { ...prev, [articleId]: { ...prev[articleId], [field]: value } }
WithField(states, id, field, value) ==
    (id :> ((field :> value) @@ EntryOf(states, id))) @@ states

\* the steps that do not touch the article states
StatesKept == UNCHANGED <<articleStates, pendingMutations, nMutations, serverSaved>>

Init ==
    /\ collections = <<>>
    /\ selectedCollectionId = Null
    /\ lastFetchRef = <<>>
    /\ hook = InitHook
    /\ inflight = EmptyBag
    /\ articleStates = NoStates
    /\ pendingMutations = EmptyBag
    /\ nMutations = 0
    /\ serverSaved = << >>
    /\ seen = {}
    /\ nFetches = 0
    /\ lastOp = Op("init")

\* useCollections: the collection list arrives
CollectionsLoaded ==
    /\ collections = <<>>
    /\ \E data \in ServerCollections :
          /\ StatesKept
          /\ Render(hook, selectedCollectionId, data, inflight, nFetches, Op("collections"))

handleCollectionSelect(id) ==
    /\ articleStates' = NoStates
    /\ UNCHANGED <<pendingMutations, nMutations, serverSaved>>
    /\ Render(hook, id, collections, inflight, nFetches, Op("select"))

handleFilterChange(newFilter) ==
    /\ articleStates' = NoStates
    /\ UNCHANGED <<pendingMutations, nMutations, serverSaved>>
    /\ Render(setFilter(hook, newFilter), selectedCollectionId, collections, inflight,
              nFetches, Op("filter"))

\* loadMore(activeCollectionId), as the Load more button calls it.  The
\* button's render condition (hasMore, list not empty, not loading) is left
\* out so that the guard of loadMore itself is exercised, as the hook's own
\* tests do by calling it directly.
LoadMore ==
    LET active == activeCollectionId(selectedCollectionId, collections)
    IN  /\ active # Null
        /\ StatesKept
        /\ IF loadMoreSkips(hook)
           THEN Render(hook, selectedCollectionId, collections, inflight, nFetches,
                       Op("loadMore") @@ [dispatched |-> FALSE])
           ELSE /\ BagCardinality(inflight) < MaxInFlight
                /\ nFetches < MaxFetches
                /\ Render(fetchArticlesBegin(hook, active, FALSE),
                          selectedCollectionId, collections,
                          inflight (+) SetToBag({fetchArticlesCall(hook, active, FALSE)}),
                          nFetches + 1,
                          Op("loadMore") @@ [dispatched |-> TRUE])

\* a pending list call resolves with the server's page
FetchFulfilled(r) ==
    /\ BagIn(r, inflight)
    /\ StatesKept
    /\ Render(fetchArticlesFulfilled(hook, r, getByCollection(r.params)),
              selectedCollectionId, collections,
              inflight (-) SetToBag({r}), nFetches,
              Op("fulfilled"))

\* a pending list call fails
FetchRejected(r, detail) ==
    /\ BagIn(r, inflight)
    /\ StatesKept
    /\ Render(fetchArticlesRejected(hook, r, detail),
              selectedCollectionId, collections,
              inflight (-) SetToBag({r}), nFetches,
              Op("rejected") @@ [req |-> r, detail |-> detail,
                                 promise |-> fetchArticlesPromise(FALSE)])

FetchSettled ==
    \E r \in BagToSet(inflight) :
        \/ FetchFulfilled(r)
        \/ \E detail \in Details : FetchRejected(r, detail)

Next ==
    \/ CollectionsLoaded
    \/ \E i \in 1..Len(collections) : handleCollectionSelect(collections[i])
    \/ \E f \in FilterType : handleFilterChange(f)
    \/ LoadMore
    \/ FetchSettled

Spec == Init /\ [][Next]_vars

\* ------------------------------------------------ article state mutations
DefaultMutationError(kind) ==
    CASE kind = "markRead" -> "Failed to mark article as read"
      [] kind = "markUnread" -> "Failed to mark article as unread"
      [] kind = "save" -> "Failed to save article"
      [] kind = "unsave" -> "Failed to unsave article"

\* how the promise of markRead / markUnread / saveArticle / unsaveArticle
\* ends: the catch block throws the error on to the caller
mutationPromise(ok) == IF ok THEN "resolved" ELSE "rejected"

\* markRead / markUnread / saveArticle / unsaveArticle of the hook, catch
\* branch: the message is stored and the error is thrown on to the caller
mutationRejected(h, kind, detail) ==
    [h EXCEPT !.error = ErrorMessage(detail, DefaultMutationError(kind))]

\* articleStates[id]?.field : <<>> is undefined, <<v>> the value v
PropOf(states, id, field) ==
    IF id \in DOMAIN states /\ field \in DOMAIN states[id]
    THEN <<states[id][field]>> ELSE <<>>

\* slip: a card without a value shows the flag as set
DefaultFalse_ShowsSet(prop) == IF prop = <<>> THEN TRUE ELSE prop[1]

\* the default value of the isRead / isSaved props of ArticleCard
DefaultFalse(prop) == IF prop = <<>> THEN FALSE ELSE prop[1]

ShownIsRead(states, id) == DefaultFalse(PropOf(states, id, "isRead"))
ShownIsSaved(states, id) == DefaultFalse(PropOf(states, id, "isSaved"))

\* aria-label of the card's read button and of its save button
ReadLabel(states, id) ==
    IF ShownIsRead(states, id) THEN "Mark as unread" ELSE "Mark as read"
SaveLabel(states, id) ==
    IF ShownIsSaved(states, id) THEN "Unsave" ELSE "Save"

\* the cards the user acts on
ClickableIds ==
    {hook.articles[i] : i \in 1..Min(MaxClickIndex, Len(hook.articles))}

\* a pending call: what was sent (kind, id), what the handler keeps in its
\* closure (isSaved) and whether the server has processed it; label is
\* history, the button that was clicked
Mutation(kind, id, isSaved, label) ==
    [kind |-> kind, id |-> id, isSaved |-> isSaved, label |-> label,
     processed |-> FALSE]

\* the server processes a call: save and unsave set the saved flag
serverApply(saved, m) ==
    CASE m.kind = "save" -> (m.id :> TRUE) @@ saved
      [] m.kind = "unsave" -> (m.id :> FALSE) @@ saved
      [] OTHER -> saved

\* slip: the save handler stores the flag it read, not its negation
applyMutation_NotNegated(states, m) ==
    CASE m.kind = "markRead" -> WithField(states, m.id, "isRead", TRUE)
      [] m.kind \in {"save", "unsave"} -> WithField(states, m.id, "isSaved", m.isSaved)
      [] OTHER -> states

\* the setArticleStates call of handleMarkRead / handleSaveToggle after the
\* await; a direct markUnread call has no handler and sets nothing
applyMutation(states, m) ==
    CASE m.kind = "markRead" -> WithField(states, m.id, "isRead", TRUE)
      [] m.kind \in {"save", "unsave"} -> WithField(states, m.id, "isSaved", ~m.isSaved)
      [] OTHER -> states

\* slip: the hook does not rethrow, the handler goes on as after a success
statesAfterSettle_NoRethrow(states, m, ok) == applyMutation(states, m)

\* try / catch of handleMarkRead and handleSaveToggle
statesAfterSettle(states, m, ok) ==
    IF ok THEN applyMutation(states, m) ELSE states

\* a click dispatches the call; nothing else changes until it settles
Dispatch(m) ==
    /\ nMutations < MaxMutations
    /\ nMutations' = nMutations + 1
    /\ pendingMutations' = pendingMutations (+) SetToBag({m})
    /\ articleStates' = articleStates
    /\ serverSaved' = serverSaved
    /\ Render(hook, selectedCollectionId, collections, inflight, nFetches,
              Op("click") @@ [m |-> m])

handleMarkRead(articleId) ==
    Dispatch(Mutation("markRead", articleId, FALSE, ReadLabel(articleStates, articleId)))

handleSaveToggle(articleId) ==
    LET current == PropOf(articleStates, articleId, "isSaved")
        isSaved == IF current = <<>> THEN FALSE ELSE current[1]
    IN  Dispatch(Mutation(IF isSaved THEN "unsave" ELSE "save", articleId, isSaved,
                          SaveLabel(articleStates, articleId)))

\* markUnread of the hook; the Dashboard has no handler for it, it is called
\* directly as the hook's tests do
markUnread(articleId) ==
    Dispatch(Mutation("markUnread", articleId, FALSE, "direct"))

\* the server processes a pending call; its response is still to come
ServerProcesses(m) ==
    /\ BagIn(m, pendingMutations)
    /\ ~m.processed
    /\ pendingMutations' = (pendingMutations (-) SetToBag({m}))
                               (+) SetToBag({[m EXCEPT !.processed = TRUE]})
    /\ serverSaved' = serverApply(serverSaved, m)
    /\ lastOp' = Op("server")
    /\ UNCHANGED <<collections, selectedCollectionId, lastFetchRef, hook, inflight,
                   articleStates, nMutations, seen, nFetches>>

\* the response of a call arrives with success; a call the server has not
\* processed before is processed as it responds
MutationFulfilled(m) ==
    /\ BagIn(m, pendingMutations)
    /\ pendingMutations' = pendingMutations (-) SetToBag({m})
    /\ nMutations' = nMutations
    /\ serverSaved' = IF m.processed THEN serverSaved ELSE serverApply(serverSaved, m)
    /\ articleStates' = statesAfterSettle(articleStates, m,
                                          mutationPromise(TRUE) = "resolved")
    /\ Render(hook, selectedCollectionId, collections, inflight, nFetches,
              Op("mutationFulfilled") @@ [m |-> m])

\* the server refuses a call: nothing was processed
MutationRejected(m, detail) ==
    /\ BagIn(m, pendingMutations)
    /\ ~m.processed
    /\ pendingMutations' = pendingMutations (-) SetToBag({m})
    /\ nMutations' = nMutations
    /\ serverSaved' = serverSaved
    /\ articleStates' = statesAfterSettle(articleStates, m,
                                          mutationPromise(FALSE) = "resolved")
    /\ Render(mutationRejected(hook, m.kind, detail),
              selectedCollectionId, collections, inflight, nFetches,
              Op("mutationRejected") @@ [m |-> m, detail |-> detail,
                                         promise |-> mutationPromise(FALSE)])

MutationSettled ==
    \E m \in BagToSet(pendingMutations) :
        \/ MutationFulfilled(m)
        \/ \E detail \in Details : MutationRejected(m, detail)

\* The Dashboard with its article actions. Explored within one budget of
\* list calls and article actions together; the collection and the filter
\* are changed while no list call is pending (the interleavings of list
\* calls are explored by Spec).
WithinBudget == nFetches' + nMutations' <= MaxFetches

NextMutations ==
    \/ CollectionsLoaded
    \/ \E i \in 1..Len(collections) :
          /\ inflight = EmptyBag
          /\ handleCollectionSelect(collections[i])
          /\ WithinBudget
    \/ \E f \in FilterType :
          /\ inflight = EmptyBag
          /\ handleFilterChange(f)
          /\ WithinBudget
    \/ LoadMore /\ WithinBudget
    \/ FetchSettled
    \/ \E id \in ClickableIds : handleMarkRead(id) /\ WithinBudget
    \/ \E id \in ClickableIds : handleSaveToggle(id) /\ WithinBudget
    \/ \E id \in ClickableIds : markUnread(id) /\ WithinBudget
    \/ MutationSettled

SpecMutations == Init /\ [][NextMutations]_vars

\* The save button alone, in one scope, with the server processing the
\* calls at any time before it responds.
NextSaveToggle ==
    \/ CollectionsLoaded
    \/ \E r \in BagToSet(inflight) : FetchFulfilled(r)
    \/ \E id \in ClickableIds : handleSaveToggle(id)
    \/ \E m \in BagToSet(pendingMutations) : ServerProcesses(m)
    \/ MutationSettled

SpecSaveToggle == Init /\ [][NextSaveToggle]_vars

\* clearError of the hook; the Dashboard does not call it, it is called
\* directly as the hook's tests do.  cleared is history: the error before.
ClearError ==
    /\ StatesKept
    /\ Render(clearError(hook), selectedCollectionId, collections, inflight, nFetches,
              Op("clearError") @@ [cleared |-> hook.error])

\* The Dashboard with the mark-read button and clearError, explored within
\* the budget of NextMutations.
NextErrors ==
    \/ CollectionsLoaded
    \/ \E i \in 1..Len(collections) :
          /\ inflight = EmptyBag
          /\ handleCollectionSelect(collections[i])
          /\ WithinBudget
    \/ \E f \in FilterType :
          /\ inflight = EmptyBag
          /\ handleFilterChange(f)
          /\ WithinBudget
    \/ LoadMore /\ WithinBudget
    \/ FetchSettled
    \/ \E id \in ClickableIds : handleMarkRead(id) /\ WithinBudget
    \/ MutationSettled
    \/ ClearError

SpecErrors == Init /\ [][NextErrors]_vars

\* the list calls settle whenever one is pending: every request gets a response
FairSpec == Spec /\ WF_vars(FetchSettled)

\* One scope only: the filter may be chosen before the collections arrive;
\* once the first fetch is out, only load-more, responses and re-selecting
\* the collection that is already active happen.
NextOneScope ==
    \/ CollectionsLoaded
    \/ \E f \in FilterType : collections = <<>> /\ handleFilterChange(f)
    \/ \E i \in 1..Len(collections) :
          /\ collections[i] = activeCollectionId(selectedCollectionId, collections)
          /\ handleCollectionSelect(collections[i])
    \/ LoadMore
    \/ FetchSettled

SpecOneScope == Init /\ [][NextOneScope]_vars

\* ------------------------------------------------------------ properties
ActiveScope == Scope(activeCollectionId(selectedCollectionId, collections), hook.filter)

\* C1: every item of the loaded list was returned by a fetch dispatched for
\* the currently active scope (a stale fetch's result is never placed in or
\* appended to the list).
C1_NoStaleItems ==
    \A i \in 1..Len(hook.origin) : hook.origin[i] = ActiveScope

\* C2: for each scope at most one list fetch is in flight.
C2_OneFetchPerScope ==
    \A r \in BagToSet(inflight) :
        /\ CopiesIn(r, inflight) = 1
        /\ \A q \in BagToSet(inflight) : RequestScope(q) = RequestScope(r) => q = r

\* C3: a step that changes the active scope leaves items = [], total = 0,
\* hasMore = false and offset 0.
C3_ScopeChangeResets ==
    [][ActiveScope' # ActiveScope =>
          /\ hook'.articles = <<>>
          /\ hook'.total = 0
          /\ ~(Len(hook'.articles) < hook'.total)
          /\ hook'.offset = 0]_vars

\* C4: when a list fetch fails, the list, total and offset are what they
\* were before the call was issued, isLoading is false and error is the
\* failure's detail or 'Failed to load articles'.  Stated for a call that
\* was issued by the previous step, is the only one pending and fails now,
\* so that nothing else touched the list in between.
IssuedFetch(op) ==
    op.effect \/ (op.op = "loadMore" /\ op.dispatched)

C4_FailureKeepsList ==
    [][(IssuedFetch(lastOp) /\ BagCardinality(inflight) = 1 /\ lastOp'.op = "rejected") =>
          /\ hook'.articles = lastOp'.req.pre.articles
          /\ hook'.total = lastOp'.req.pre.total
          /\ hook'.offset = lastOp'.req.pre.offset
          /\ ~hook'.isLoading
          /\ hook'.error = IF lastOp'.detail = "" THEN "Failed to load articles"
                           ELSE lastOp'.detail]_vars

\* C5: whenever a list fetch is in flight, isLoading is true.
C5_LoadingWhileInFlight ==
    inflight # EmptyBag => hook.isLoading

\* C6: with no list fetch in flight isLoading is false, and when every
\* request gets a response isLoading always becomes false again.
C6_LoadingCleared ==
    /\ [](inflight = EmptyBag => ~hook.isLoading)
    /\ (hook.isLoading ~> ~hook.isLoading)

C6_Witness ==
    /\ lastOp.op \in {"fulfilled", "rejected"}
    /\ inflight = EmptyBag
    /\ ~hook.isLoading

\* C7: loadMore called while isLoading, or while the list holds total or
\* more items, dispatches nothing and changes no state of the hook.
C7_LoadMoreNoOp ==
    [][(lastOp'.op = "loadMore" /\ (hook.isLoading \/ Len(hook.articles) >= hook.total)) =>
          /\ hook' = hook
          /\ inflight' = inflight
          /\ nFetches' = nFetches]_vars

C7_Witness ==
    /\ lastOp.op = "loadMore"
    /\ ~lastOp.dispatched
    /\ ~hook.isLoading
    /\ hook.articles # <<>>
    /\ Len(hook.articles) >= hook.total

\* C8: a load-more right after a load-more that dispatched (still pending)
\* dispatches no further list call: the two result in exactly one call.
C8_LoadMoreDedup ==
    [][(lastOp.op = "loadMore" /\ lastOp.dispatched /\ lastOp'.op = "loadMore") =>
          /\ nFetches' = nFetches
          /\ inflight' = inflight]_vars

C8_Witness ==
    /\ lastOp.op = "loadMore"
    /\ ~lastOp.dispatched
    /\ hook.isLoading
    /\ Len(hook.articles) < hook.total
    /\ \E r \in BagToSet(inflight) : ~r.reset

\* C9: within one scope the loaded list is always a duplicate-free prefix of
\* the server's ordered list for that scope.
IsPrefix(s, t) == Len(s) <= Len(t) /\ \A i \in 1..Len(s) : s[i] = t[i]
NoDuplicates(s) == \A i, j \in 1..Len(s) : s[i] = s[j] => i = j

C9_LoadedIsPrefix ==
    /\ NoDuplicates(hook.articles)
    /\ IsPrefix(hook.articles,
                FilteredArticles(ActiveScope.collectionId,
                                 hook.filter = "unread", hook.filter = "saved"))

C9_Witness ==
    /\ Len(hook.articles) > 2 * PAGE_SIZE
    /\ lastOp.op = "fulfilled"
    /\ nFetches = 3

\* C10: a render whose (collection, filter) pair equals the last dispatched
\* pair dispatches no reset fetch; a bare re-render leaves list, total and
\* offset unchanged.
C10_SamePairNoFetch ==
    [][(lastFetchRef # <<>> /\ ActiveScope' = lastFetchRef[1]) =>
          /\ \A r \in BagToSet(inflight') :
                r.reset => CopiesIn(r, inflight') <= CopiesIn(r, inflight)
          /\ nFetches' = nFetches +
                (IF lastOp'.op = "loadMore" /\ lastOp'.dispatched THEN 1 ELSE 0)
          /\ lastOp'.op = "select" =>
                /\ hook'.articles = hook.articles
                /\ hook'.total = hook.total
                /\ hook'.offset = hook.offset]_vars

C10_Witness ==
    /\ lastOp.op = "select"
    /\ ~lastOp.effect
    /\ hook.articles # <<>>
    /\ lastFetchRef = <<ActiveScope>>

\* the list calls a step added to, and took from, the pending ones
Dispatched == {r \in BagToSet(inflight') : CopiesIn(r, inflight') > CopiesIn(r, inflight)}
Settled == {r \in BagToSet(inflight) : CopiesIn(r, inflight') < CopiesIn(r, inflight)}

\* C11: a step that makes the active pair differ from the last dispatched
\* pair (active collection not null) dispatches exactly one list call: a
\* reset fetch at offset 0 for the new pair, with the new filter's flags.
C11_ScopeChangeRefetches ==
    [][(/\ ActiveScope'.collectionId # 0
        /\ (lastFetchRef = <<>> \/ lastFetchRef[1] # ActiveScope')) =>
          /\ nFetches' = nFetches + 1
          /\ BagCardinality(inflight') = BagCardinality(inflight) + 1
          /\ \E r \in Dispatched :
                /\ r.reset
                /\ r.params.offset = 0
                /\ r.params.limit = 20
                /\ r.params.collectionId = ActiveScope'.collectionId
                /\ r.params.unreadOnly = (hook'.filter = "unread")
                /\ r.params.savedOnly = (hook'.filter = "saved")
          /\ lastFetchRef' = <<ActiveScope'>>]_vars

C11_Witness ==
    /\ lastOp.op = "filter"
    /\ lastOp.effect
    /\ hook.filter = "saved"
    /\ hook.articles = <<>>
    /\ \E r \in BagToSet(inflight) : r.reset /\ r.params.savedOnly /\ ~r.params.unreadOnly

\* C12: every reset fetch asks for offset 0 and limit 20; when it succeeds
\* the list is exactly the returned items, total is the server's total and
\* hasMore is (returned count < total).
C12_ResetFetchFirstPage ==
    /\ [](\A r \in BagToSet(inflight) :
            r.reset => r.params.offset = 0 /\ r.params.limit = 20)
    /\ [][\A r \in Settled :
            (lastOp'.op = "fulfilled" /\ r.reset) =>
                LET data == getByCollection(r.params)
                IN  /\ hook'.articles = data.items
                    /\ hook'.total = data.total
                    /\ hook'.offset = Len(data.items)
                    /\ (Len(hook'.articles) < hook'.total) = (Len(data.items) < data.total)]_vars

C12_Witness ==
    /\ lastOp.op = "fulfilled"
    /\ nFetches >= 2
    /\ inflight = EmptyBag
    /\ Len(hook.articles) = PAGE_SIZE
    /\ hook.offset = PAGE_SIZE
    /\ Len(hook.articles) < hook.total
    /\ C1_NoStaleItems

\* C13: a successful non-reset fetch appends the returned items after the
\* loaded ones, sets total to the server's total and advances offset by the
\* number of items returned; issued one after the other, offset and the list
\* length both equal the number of items returned so far.
C13_LoadMoreAppends ==
    /\ [](hook.offset = Len(hook.articles))
    /\ [][\A r \in Settled :
            (lastOp'.op = "fulfilled" /\ ~r.reset) =>
                LET data == getByCollection(r.params)
                IN  /\ hook'.articles = hook.articles \o data.items
                    /\ hook'.total = data.total
                    /\ hook'.offset = hook.offset + Len(data.items)]_vars

C13_Witness ==
    /\ lastOp.op = "fulfilled"
    /\ nFetches = 2
    /\ Len(hook.articles) = 2 * PAGE_SIZE
    /\ hook.offset = 2 * PAGE_SIZE

\* C14: when markRead, markUnread, saveArticle or unsaveArticle fails, the
\* overlay map is left as it was, and the hook's error is the detail of the
\* failure when it has one, else the default message of that operation.
C14_FailedMutationKeepsOverlay ==
    [][lastOp'.op = "mutationRejected" =>
          /\ articleStates' = articleStates
          /\ hook'.error =
                IF lastOp'.detail # "" THEN lastOp'.detail
                ELSE CASE lastOp'.m.kind = "markRead" -> "Failed to mark article as read"
                       [] lastOp'.m.kind = "markUnread" -> "Failed to mark article as unread"
                       [] lastOp'.m.kind = "save" -> "Failed to save article"
                       [] lastOp'.m.kind = "unsave" -> "Failed to unsave article"]_vars

\* an unsave failed without a detail while the item was shown as saved
C14_Witness ==
    /\ lastOp.op = "mutationRejected"
    /\ lastOp.m.kind = "unsave"
    /\ lastOp.detail = ""
    /\ hook.error = "Failed to unsave article"
    /\ PropOf(articleStates, lastOp.m.id, "isSaved") = <<TRUE>>

\* C15: when mark-read, save or unsave succeeds, the overlay entry of the
\* item holds the new value of the flag in the same step, no list call is
\* sent, and the list, the total and the offset are what they were.
C15_SuccessfulMutationShowsFlag ==
    [][lastOp'.op = "mutationFulfilled" /\ lastOp'.m.kind # "markUnread" =>
          /\ lastOp'.m.id \in DOMAIN articleStates'
          /\ lastOp'.m.kind = "markRead" =>
                PropOf(articleStates', lastOp'.m.id, "isRead") = <<TRUE>>
          /\ lastOp'.m.kind = "save" =>
                PropOf(articleStates', lastOp'.m.id, "isSaved") = <<TRUE>>
          /\ lastOp'.m.kind = "unsave" =>
                PropOf(articleStates', lastOp'.m.id, "isSaved") = <<FALSE>>
          /\ inflight' = inflight
          /\ nFetches' = nFetches
          /\ hook'.articles = hook.articles
          /\ hook'.total = hook.total
          /\ hook'.offset = hook.offset]_vars

\* an unsave succeeded on a loaded list of which more can be loaded
C15_Witness ==
    /\ lastOp.op = "mutationFulfilled"
    /\ lastOp.m.kind = "unsave"
    /\ PropOf(articleStates, lastOp.m.id, "isSaved") = <<FALSE>>
    /\ Len(hook.articles) = PAGE_SIZE
    /\ hasMore(hook)

\* C16: a successful markUnread on an item shown as read makes the item
\* shown as unread.
C16_MarkUnreadClearsFlag ==
    [][(/\ lastOp'.op = "mutationFulfilled"
        /\ lastOp'.m.kind = "markUnread"
        /\ PropOf(articleStates, lastOp'.m.id, "isRead") = <<TRUE>>)
       => PropOf(articleStates', lastOp'.m.id, "isRead") = <<FALSE>>]_vars

\* C17: a successful mark-read or mark-unread leaves the isSaved of its item
\* as it was, a successful save or unsave leaves its isRead as it was, and
\* neither adds, removes or changes the entry of any other item; this holds
\* also when two calls on the same item are pending together.
C17_FlagsIndependent ==
    [][lastOp'.op = "mutationFulfilled" =>
          /\ DOMAIN articleStates' \subseteq DOMAIN articleStates \cup {lastOp'.m.id}
          /\ \A id \in DOMAIN articleStates \ {lastOp'.m.id} :
                /\ id \in DOMAIN articleStates'
                /\ articleStates'[id] = articleStates[id]
          /\ lastOp'.m.kind \in {"markRead", "markUnread"} =>
                PropOf(articleStates', lastOp'.m.id, "isSaved")
                    = PropOf(articleStates, lastOp'.m.id, "isSaved")
          /\ lastOp'.m.kind \in {"save", "unsave"} =>
                PropOf(articleStates', lastOp'.m.id, "isRead")
                    = PropOf(articleStates, lastOp'.m.id, "isRead")]_vars

\* a mark-read succeeded while a save of the same item was pending: the
\* entry has isRead and still no isSaved
C17_Witness ==
    /\ lastOp.op = "mutationFulfilled"
    /\ lastOp.m.kind = "markRead"
    /\ PropOf(articleStates, lastOp.m.id, "isRead") = <<TRUE>>
    /\ PropOf(articleStates, lastOp.m.id, "isSaved") = <<>>
    /\ \E m \in BagToSet(pendingMutations) : m.id = lastOp.m.id /\ m.kind = "save"

\* C18: every item with an overlay entry has been in the loaded list since
\* the active scope became active.
C18_EntriesWereLoaded ==
    DOMAIN articleStates \subseteq seen

\* C19: while the active scope stays what it is, every field of every
\* overlay entry stays in the map.
C19_EntriesKeptInScope ==
    [][ActiveScope' = ActiveScope =>
          \A id \in DOMAIN articleStates :
              /\ id \in DOMAIN articleStates'
              /\ DOMAIN articleStates[id] \subseteq DOMAIN articleStates'[id]]_vars

\* C20: each card of the list shows as isRead and as isSaved the value the
\* overlay entry of its item has for the flag, and FALSE when there is no
\* entry or the entry lacks the flag.
C20_ShownFlags ==
    \A i \in 1..Len(hook.articles) :
        LET id == hook.articles[i]
            has(field) == id \in DOMAIN articleStates /\ field \in DOMAIN articleStates[id]
        IN  /\ ShownIsRead(articleStates, id)
                  = (IF has("isRead") THEN articleStates[id]["isRead"] ELSE FALSE)
            /\ ShownIsSaved(articleStates, id)
                  = (IF has("isSaved") THEN articleStates[id]["isSaved"] ELSE FALSE)

\* the list shows an item whose entry has isSaved only, next to an item
\* whose entry has isRead only and to an item that has no entry
C20_Witness ==
    /\ Len(hook.articles) = PAGE_SIZE
    /\ \E i, j, k \in 1..Len(hook.articles) :
          /\ DOMAIN EntryOf(articleStates, hook.articles[i]) = {"isSaved"}
          /\ ShownIsSaved(articleStates, hook.articles[i])
          /\ ~ShownIsRead(articleStates, hook.articles[i])
          /\ DOMAIN EntryOf(articleStates, hook.articles[j]) = {"isRead"}
          /\ ShownIsRead(articleStates, hook.articles[j])
          /\ ~ShownIsSaved(articleStates, hook.articles[j])
          /\ hook.articles[k] \notin DOMAIN articleStates

\* C21: every list call carries unreadOnly = (the filter is 'unread') and
\* savedOnly = (the filter is 'saved') for the filter in force when it is
\* dispatched, which after a filter change is the new filter; no pending
\* call has both flags set.
C21_FilterFlags ==
    /\ [](\A r \in BagToSet(inflight) : ~(r.params.unreadOnly /\ r.params.savedOnly))
    /\ [][\A r \in Dispatched :
            /\ r.params.unreadOnly = (hook'.filter = "unread")
            /\ r.params.savedOnly = (hook'.filter = "saved")
            /\ lastOp'.op = "filter" =>
                  \E f \in {"all", "unread", "saved"} :
                      /\ hook'.filter = f
                      /\ f # hook.filter
                      /\ r.params.unreadOnly = (f = "unread")
                      /\ r.params.savedOnly = (f = "saved")]_vars

\* the filter went from 'saved' to 'unread' and the call sent asks for the
\* unread items only, while the call for 'saved' is still pending
C21_Witness ==
    /\ lastOp.op = "filter"
    /\ lastOp.effect
    /\ hook.filter = "unread"
    /\ \E r \in BagToSet(inflight) : r.params.unreadOnly /\ ~r.params.savedOnly
    /\ \E r \in BagToSet(inflight) : r.params.savedOnly /\ ~r.params.unreadOnly

\* C22: when the remote call of fetchArticles, loadMore, markRead,
\* markUnread, saveArticle or unsaveArticle fails, the operation stores a
\* message in error and its promise resolves: it does not reject to its
\* caller.
C22_FailuresResolve ==
    [][lastOp'.op \in {"rejected", "mutationRejected"} =>
          /\ hook'.error # "null"
          /\ lastOp'.promise = "resolved"]_vars

\* C23: when the list fetch for the active scope has just failed, asking for
\* the same scope again (selecting the active collection, choosing the
\* active filter) dispatches a new list call for that scope.
C23_FailedScopeRefetched ==
    [][(/\ lastOp.op = "rejected"
        /\ lastOp.req.reset
        /\ RequestScope(lastOp.req) = ActiveScope
        /\ inflight = EmptyBag
        /\ lastOp'.op \in {"select", "filter"}
        /\ ActiveScope' = ActiveScope)
       => \E r \in Dispatched : RequestScope(r) = ActiveScope]_vars

\* C24: in every state hasMore is (number of loaded items < total): false
\* when the list holds total or more items, and true after a reset fetch
\* that returned fewer items than the total it reported.
C24_HasMoreDerived ==
    /\ [](hasMore(hook) = (Len(hook.articles) < hook.total))
    /\ [](Len(hook.articles) >= hook.total => ~hasMore(hook))
    /\ [][\A r \in Settled :
            (/\ lastOp'.op = "fulfilled"
             /\ r.reset
             /\ Len(getByCollection(r.params).items) < getByCollection(r.params).total)
            => hasMore(hook')]_vars

\* a first page of 20 of the 21 unread items has arrived: hasMore is true
C24_Witness ==
    /\ lastOp.op = "fulfilled"
    /\ hook.filter = "unread"
    /\ Len(hook.articles) = 20
    /\ hook.total = 21
    /\ hasMore(hook)

\* C25: setFilter(f) sets the filter to f and empties the list, total and
\* offset; it leaves isLoading and error as they are and sends no list call
\* (a call that follows a filter change is sent by the Dashboard's effect,
\* which begins a fetch: where the effect does not run, nothing is sent).
C25_SetFilterFrame ==
    /\ [](\A f \in {"all", "unread", "saved"} :
            /\ setFilter(hook, f).filter = f
            /\ setFilter(hook, f).articles = <<>>
            /\ setFilter(hook, f).total = 0
            /\ setFilter(hook, f).offset = 0
            /\ setFilter(hook, f).isLoading = hook.isLoading
            /\ setFilter(hook, f).error = hook.error)
    /\ [][(lastOp'.op = "filter" /\ ~lastOp'.effect) =>
            /\ inflight' = inflight
            /\ nFetches' = nFetches
            /\ hook'.articles = <<>>
            /\ hook'.total = 0
            /\ hook'.offset = 0
            /\ hook'.isLoading = hook.isLoading
            /\ hook'.error = hook.error]_vars

\* the filter was set while a list call was pending and an error was shown,
\* and no call was sent: the list is empty and the error remains
C25_Witness ==
    /\ lastOp.op = "filter"
    /\ ~lastOp.effect
    /\ hook.articles = <<>>
    /\ hook.error # NoError
    /\ inflight # EmptyBag

\* C26: after every successful page load, offset equals the number of items
\* in the loaded list, whatever reset fetches, load-more calls and scope
\* changes came before.
C26_OffsetIsLoadedCount ==
    lastOp.op = "fulfilled" => hook.offset = Len(hook.articles)

\* C27: every run of the Dashboard's filter handler with a non-null active
\* collection, also with the filter that is already active, is followed by
\* a reset fetch for the active scope.
\* Stated for a click that empties a loaded list while no list call is
\* pending, so that no earlier call can refill the list.
C27_FilterClickRefetches ==
    [][(/\ lastOp'.op = "filter"
        /\ ActiveScope'.collectionId # 0
        /\ hook.articles # <<>>
        /\ inflight = EmptyBag) =>
          \E r \in Dispatched : r.reset /\ RequestScope(r) = ActiveScope']_vars

\* C28: whenever no save or unsave call is pending, each overlay entry that
\* has an isSaved value holds the saved flag the server has for the item
\* after the save and unsave calls it processed.
C28_SavedAgreesWithServer ==
    (\A m \in BagToSet(pendingMutations) : m.kind \notin {"save", "unsave"}) =>
        \A id \in DOMAIN articleStates :
            "isSaved" \in DOMAIN articleStates[id] =>
                articleStates[id]["isSaved"] =
                    (IF id \in DOMAIN serverSaved THEN serverSaved[id] ELSE id % 3 = 0)

\* C29: no list call is sent while the active collection is null, and every
\* list call sent is for the collection active when it is sent: the
\* selected one, or the first of the list when none was selected.
C29_FetchesForActiveCollection ==
    /\ []((selectedCollectionId = 0 /\ collections = <<>>) =>
            (inflight = EmptyBag /\ nFetches = 0))
    /\ [][\A r \in Dispatched :
            /\ r.params.collectionId # 0
            /\ r.params.collectionId =
                  (IF selectedCollectionId' # 0 THEN selectedCollectionId'
                   ELSE IF collections' # <<>> THEN collections'[1] ELSE 0)]_vars

\* the filter was chosen before the collections arrived, which sent nothing;
\* the one call sent since is for the first collection of the list
C29_Witness ==
    /\ selectedCollectionId = Null
    /\ collections = <<2, 1>>
    /\ hook.filter = "saved"
    /\ nFetches = 1
    /\ \E r \in BagToSet(inflight) : r.params.collectionId = 2 /\ r.params.savedOnly

\* C30: an error that is set is taken down only by clearError or by the
\* start of a list fetch; clearError sets error to null and changes nothing
\* else; a successful mutation, a setFilter that starts no fetch and a
\* load-more that is skipped leave the error as it is.
C30_ErrorPersists ==
    /\ [][(hook.error # "null" /\ hook'.error = "null") =>
            (lastOp'.op = "clearError" \/ nFetches' = nFetches + 1)]_vars
    /\ [][lastOp'.op = "clearError" =>
            /\ hook'.error = "null"
            /\ hook' = [hook EXCEPT !.error = "null"]
            /\ UNCHANGED <<collections, selectedCollectionId, lastFetchRef, inflight,
                           articleStates, pendingMutations, nFetches>>]_vars
    /\ [][(\/ lastOp'.op = "mutationFulfilled"
           \/ (lastOp'.op = "filter" /\ ~lastOp'.effect)
           \/ (lastOp'.op = "loadMore" /\ ~lastOp'.dispatched)) =>
            hook'.error = hook.error]_vars

\* clearError took down the error of a failed mark-read while a list call
\* was pending: the loading flag and the list are as they were
C30_Witness ==
    /\ lastOp.op = "clearError"
    /\ lastOp.cleared = "Failed to mark article as read"
    /\ hook.error = NoError
    /\ hook.isLoading
    /\ hook.articles # <<>>
    /\ inflight # EmptyBag
====
